---- MODULE Spec2Model ----
(***************************************************************************)
(* Page-table simulator (ptsim.c): a 16 KiB simulated RAM whose page 0     *)
(* holds the free-page map (bytes 0..63) and the process -> page-table     *)
(* page map (bytes 64..), a first-fit page allocator, process creation and *)
(* teardown, and virtual-to-physical translation for loads and stores.     *)
(***************************************************************************)
EXTENDS Integers, FiniteSets, Sequences, TLC

\* ---------------------------------------------------------------- constants
MEM_SIZE   == 16384
PAGE_SIZE  == 256
PAGE_COUNT == 64
PAGE_SHIFT == 8

\* find_page's failure value, as stored in an unsigned char
NO_PAGE == 255

\* ------------------------------------------------------------------- bounds
\* process numbers the commands use: 1..MaxProc
MaxProc == 2
\* small page counts a command may request: 0..MaxPages (the large ones are
\* PAGE_COUNT-2 .. PAGE_COUNT, which reach the exhaustion cases)
MaxPages == 1
\* byte offsets inside a page that loads and stores use: 0..MaxOffset
MaxOffset == 0
\* values a store command writes: 0..MaxValue
MaxValue == 1
\* bytes an out-of-bounds read of mem may yield: 0..MaxGarbage
MaxGarbage == 1
\* number of commands on one command line
MaxOps == 10
\* pages the allocator's caller frees on its own: 1..MaxFreed
MaxFreed == 3
\* number of direct calls of the allocator
MaxCalls == 66
\* commands of a line that may be loads at any address: the first MaxLoadAt
MaxLoadAt == 3

Procs      == 1..MaxProc
SmallPageCounts == 0..MaxPages
BigPageCounts   == (PAGE_COUNT - 2)..PAGE_COUNT
Offsets    == 0..MaxOffset
Values     == 0..MaxValue
Garbage    == 0..MaxGarbage

\* ------------------------------------------------------------------- state
VARIABLES
    mem,              \* unsigned char mem[MEM_SIZE]: the bytes that are not 0,
                      \* as a map from their addresses; every other byte is 0
    free_page_count,  \* int free_page_count
    crashed,          \* the run ended in a fault of an out-of-bounds access
    active,           \* history: proc -> page count it was created with, -1 if none
    complete,         \* history: proc -> its creation got every page it asked for
    allComplete,      \* history: no creation so far ran out of pages midway
    fresh,            \* history: the last creation/teardown call, if a full creation
    op,               \* history: the last call (name, proc), its argument arg (page
                      \* count, virtual address or page; for kp the page count of
                      \* the victim), val (the value of sb; for lb the address; for kp, 1 if
                      \* the victim was the process of fresh) and its result ret (for np, 0 if
                      \* refused; for sb the address; for lb the value; -1 on a fault)
    nops              \* number of commands executed

vars == <<mem, free_page_count, crashed, active, complete, allComplete, fresh, op, nops>>

\* ------------------------------------------------------- integer operations
RECURSIVE BitOr(_, _)
\* a | b on non-negative ints
BitOr(a, b) ==
    IF a = 0 THEN b
    ELSE IF b = 0 THEN a
    ELSE (IF (a % 2 = 1) \/ (b % 2 = 1) THEN 1 ELSE 0) + 2 * BitOr(a \div 2, b \div 2)

RECURSIVE Pow2(_)
Pow2(n) == IF n = 0 THEN 1 ELSE 2 * Pow2(n - 1)

\* a << n and a >> n on non-negative ints
Shl(a, n) == a * Pow2(n)
Shr(a, n) == a \div Pow2(n)

\* a & 255
And255(a) == a % 256

\* conversion of an int to unsigned char on assignment into mem
ToByte(v) == v % 256

InMem(a) == a >= 0 /\ a < MEM_SIZE

\* m[a], for a inside mem[]
Rd(m, a) == IF a \in DOMAIN m THEN m[a] ELSE 0

\* m after m[a] = v, for a inside mem[]; v is converted to unsigned char.
\* (f @@ f is f: it only makes TLC evaluate the map at once.)
Wr(m, a, v) ==
    LET b == ToByte(v)
    IN  IF b = 0
        THEN IF a \in DOMAIN m
             THEN LET f == [x \in DOMAIN m \ {a} |-> m[x]] IN f @@ f
             ELSE m
        ELSE (a :> b) @@ m

\* ------------------------------------------------------------ pure helpers
get_address(page, offset) == BitOr(Shl(page, PAGE_SHIFT), offset)

get_page_table(m, proc_num) == Rd(m, PAGE_COUNT + proc_num)

\* state after main's call of initialize_mem: the global array is zero
\* filled by the loader, mem[0] is set, and the clearing loop runs no
\* iteration (its condition i > MEM_SIZE is false at i = 1)
initialize_mem == Wr([a \in {} |-> 0], 0, 1)

\* a scan that prefers the highest free index
find_page_in_last(m, lo, hi) ==
    LET free == { i \in lo..(hi - 1) : Rd(m, i) = 0 }
    IN  IF free = {} THEN NO_PAGE ELSE CHOOSE i \in free : \A j \in free : j <= i

RECURSIVE find_page_in(_, _, _)
\* the scan of find_page over the indices lo..hi-1 in ascending order: the
\* first index whose byte is 0, or NO_PAGE.  (The range is halved rather
\* than walked one index at a time only to keep the evaluation shallow.)
find_page_in(m, lo, hi) ==
    IF hi <= lo THEN NO_PAGE
    ELSE IF hi = lo + 1 THEN (IF Rd(m, lo) = 0 THEN lo ELSE NO_PAGE)
    ELSE LET mid   == (lo + hi) \div 2
             first == find_page_in(m, lo, mid)
         IN  IF first # NO_PAGE THEN first ELSE find_page_in(m, mid, hi)

\* for (unsigned char i = 1; i < PAGE_COUNT; i++) if (mem[i] == 0) ...
find_page_from(m, i) == find_page_in(m, i, PAGE_COUNT)

\* a find_page that counts a page out of free_page_count even when it fails
find_page_counts_failure(s) ==
    LET i == find_page_from(s.mem, 1)
    IN  [ret |-> i,
         mem |-> IF i # NO_PAGE THEN Wr(s.mem, i, 1) ELSE s.mem,
         fpc |-> s.fpc - 1]

\* find_page on state s = [mem, fpc]: the value returned and the state left
find_page(s) ==
    LET i == find_page_from(s.mem, 1)
    IN  IF i # NO_PAGE
        THEN [ret |-> i, mem |-> Wr(s.mem, i, 1), fpc |-> s.fpc - 1]
        ELSE [ret |-> NO_PAGE, mem |-> s.mem, fpc |-> s.fpc]

deallocate_page(m, page_num) == Wr(m, page_num, 0)

\* --------------------------------------------------------------- new_process
\* an iteration that writes the entry of virtual page v one offset too far
new_process_step_shifted(s, pt, v) ==
    LET r    == find_page(s)
        addr == get_address(pt, v + 1)
    IN  [mem   |-> IF InMem(addr) THEN Wr(r.mem, addr, r.ret) ELSE r.mem,
         fpc   |-> r.fpc,
         pages |-> IF r.ret # NO_PAGE THEN s.pages \cup {r.ret} ELSE s.pages,
         full  |-> s.full /\ r.ret # NO_PAGE,
         oob   |-> s.oob \/ ~InMem(addr)]

\* one iteration of new_process's loop, for virtual page v.  s carries mem
\* and fpc, and records: pages (the page numbers find_page handed out), full
\* (no find_page failed) and oob (a store outside mem[] was attempted; the
\* store itself is not applied to mem)
new_process_step(s, pt, v) ==
    LET r    == find_page(s)
        addr == get_address(pt, v)
    IN  [mem   |-> IF InMem(addr) THEN Wr(r.mem, addr, r.ret) ELSE r.mem,
         fpc   |-> r.fpc,
         pages |-> IF r.ret # NO_PAGE THEN s.pages \cup {r.ret} ELSE s.pages,
         full  |-> s.full /\ r.ret # NO_PAGE,
         oob   |-> s.oob \/ ~InMem(addr)]

RECURSIVE new_process_loop(_, _, _, _)
\* the iterations for virtual pages lo..hi-1, in ascending order
new_process_loop(s, pt, lo, hi) ==
    IF hi <= lo THEN s
    ELSE IF hi = lo + 1 THEN new_process_step(s, pt, lo)
    ELSE LET mid  == (lo + hi) \div 2
             half == new_process_loop(s, pt, lo, mid)
         IN  \* (the test only makes TLC evaluate the first half first)
             IF half.fpc = half.fpc THEN new_process_loop(half, pt, mid, hi) ELSE half

\* new_process past its pre-check
new_process_body(m, fpc, proc_num, page_count) ==
    LET r  == find_page([mem |-> m, fpc |-> fpc])
        pt == r.ret
        m1 == Wr(r.mem, PAGE_COUNT + proc_num, pt)
    IN  new_process_loop(
            [mem   |-> m1,
             fpc   |-> r.fpc,
             pages |-> IF pt # NO_PAGE THEN {pt} ELSE {},
             full  |-> pt # NO_PAGE,
             oob   |-> FALSE],
            pt, 0, page_count)

\* a pre-check off by one the other way
new_process_refused_late(fpc, page_count) == fpc + 1 < page_count

\* a pre-check that also counts the page table's page
new_process_refused_exact(fpc, page_count) == fpc < page_count + 1

\* the pre-check of new_process
new_process_refused(fpc, page_count) == fpc < page_count

\* ---------------------------------------------------------------------- kill
\* an iteration that clears the entry but leaves the data page allocated
kill_step_keeps_page(m, pt, offset) ==
    Wr(m, get_address(pt, offset), 0)

\* one iteration of kill's loop, at offset
kill_step(m, pt, offset) ==
    LET data_page_address == get_address(pt, offset)
    IN  IF Rd(m, data_page_address) # 0
        THEN LET data_page_num == Rd(m, data_page_address)
                 m1 == deallocate_page(m, data_page_num)
             IN  Wr(m1, data_page_address, 0)
        ELSE m

RECURSIVE kill_loop(_, _, _, _)
\* the iterations of kill's loop over the page table in page pt (inside
\* mem) for offsets lo..hi-1, in ascending order.  An iteration at a zero
\* entry changes nothing, and the loop stores only zeros, so a range of
\* offsets whose entries are all 0 when the loop reaches it is passed over
kill_loop(m, pt, lo, hi) ==
    IF hi <= lo THEN m
    ELSE IF DOMAIN m \cap (get_address(pt, lo)..get_address(pt, hi - 1)) = {} THEN m
    ELSE IF hi = lo + 1 THEN kill_step(m, pt, lo)
    ELSE LET mid  == (lo + hi) \div 2
             half == kill_loop(m, pt, lo, mid)
         IN  \* (the test only makes TLC evaluate the first half first)
             IF half = half THEN kill_loop(half, pt, mid, hi) ELSE half

RECURSIVE deallocate_all(_, _)
deallocate_all(m, G) ==
    IF G = {} THEN m
    ELSE LET g == CHOOSE x \in G : TRUE
         IN  deallocate_all(deallocate_page(m, g), G \ {g})

\* kill reads its page table outside mem[] when the process-table byte is 64
\* or more (NO_PAGE after a failed find_page)
kill_oob(m, proc_num) == ~InMem(get_address(get_page_table(m, proc_num), PAGE_SIZE - 1))

\* a kill that frees the data pages but not the page table's page
kill_keeps_table(m, proc_num) ==
    { kill_loop(m, get_page_table(m, proc_num), 0, PAGE_SIZE) }

\* the memories kill may leave, when it returns.  With the page table outside
\* mem[] every entry read is an arbitrary byte: the pages named by the
\* non-zero ones (any set G of them) are deallocated, and the stores of 0 to
\* the entries land outside mem[]
kill(m, proc_num) ==
    LET process_page_table == get_page_table(m, proc_num)
    IN  IF kill_oob(m, proc_num)
        THEN { deallocate_page(deallocate_all(m, G), process_page_table) :
                   G \in SUBSET (Garbage \ {0}) }
        ELSE { deallocate_page(kill_loop(m, process_page_table, 0, PAGE_SIZE), process_page_table) }

\* --------------------------------------------------------------- translation
virtual_page_of(virtual_address) == Shr(virtual_address, 8)

\* a lookup that always reads the entry of virtual page 0
page_table_entry_address_first(m, process_num, virtual_address) ==
    get_address(get_page_table(m, process_num), 0)

\* index of the page-table byte get_physical_address reads
page_table_entry_address(m, process_num, virtual_address) ==
    get_address(get_page_table(m, process_num), 0) + virtual_page_of(virtual_address)

\* a translation that does not mask the offset
get_physical_address_unmasked(m, process_num, virtual_address) ==
    LET idx    == page_table_entry_address(m, process_num, virtual_address)
        physical_page_nums == IF InMem(idx) THEN {Rd(m, idx)} ELSE Garbage
    IN  { get_address(physical_page_num, virtual_address) :
              physical_page_num \in physical_page_nums }

\* the addresses get_physical_address may return: one, unless the page-table
\* byte lies outside mem[], where the byte read is arbitrary
get_physical_address(m, process_num, virtual_address) ==
    LET idx    == page_table_entry_address(m, process_num, virtual_address)
        offset == And255(virtual_address)
        physical_page_nums == IF InMem(idx) THEN {Rd(m, idx)} ELSE Garbage
    IN  { get_address(physical_page_num, offset) : physical_page_num \in physical_page_nums }

\* a store that lands one byte further
store_at_next(m, address, value) == Wr(m, address + 1, value)

\* store_value at a resolved address inside mem[]
store_at(m, address, value) == Wr(m, address, value)

\* read_value at a resolved address inside mem[]
read_at(m, address) == Rd(m, address)

\* ------------------------------------------------------------ history values
NotActive == -1
NoFresh   == [proc |-> 0, k |-> 0, fpc |-> 0, pages |-> {}]
Call(name, proc, arg, val, ret) ==
    [name |-> name, proc |-> proc, arg |-> arg, val |-> val, ret |-> ret]

PageCounts == SmallPageCounts \cup BigPageCounts
VAddrs     == { get_address(vp, off) : vp \in 0..MaxPages, off \in Offsets }

\* caller contract of store_value / read_value: the process is active and the
\* address lies in a virtual page it asked for
Mapped(p, va) == active[p] # NotActive /\ virtual_page_of(va) < active[p]

\* ---------------------------------------------------------------------- Init
\* main after initialize_mem, before the first command
Init ==
    /\ mem = initialize_mem
    /\ free_page_count = PAGE_COUNT - 1
    /\ crashed = FALSE
    /\ active = [p \in Procs |-> NotActive]
    /\ complete = [p \in Procs |-> FALSE]
    /\ allComplete = TRUE
    /\ fresh = NoFresh
    /\ op = Call("init", 0, 0, 0, 0)
    /\ nops = 0

Running == ~crashed /\ nops < MaxOps

\* the run dies of a fault in an out-of-bounds access
Fault(name, proc, arg, val) ==
    /\ crashed' = TRUE
    /\ op' = Call(name, proc, arg, val, -1)
    /\ nops' = nops + 1
    /\ UNCHANGED <<mem, free_page_count, active, complete, allComplete, fresh>>

\* -------------------------------------------------------------------- actions
\* command "np p k": new_process(p, k), p not active
NewProcess(p, k) ==
    /\ Running
    /\ active[p] = NotActive
    /\ IF new_process_refused(free_page_count, k)
       THEN /\ op' = Call("np", p, k, 0, 0)
            /\ nops' = nops + 1
            /\ fresh' = NoFresh
            /\ UNCHANGED <<mem, free_page_count, crashed, active, complete, allComplete>>
       ELSE LET r == new_process_body(mem, free_page_count, p, k)
            IN  \/ /\ mem' = r.mem
                   /\ free_page_count' = r.fpc
                   /\ active' = [active EXCEPT ![p] = k]
                   /\ complete' = [complete EXCEPT ![p] = r.full]
                   /\ allComplete' = (allComplete /\ r.full)
                   /\ fresh' = IF r.full
                               THEN [proc |-> p, k |-> k, fpc |-> free_page_count,
                                     pages |-> r.pages]
                               ELSE NoFresh
                   /\ op' = Call("np", p, k, 0, 1)
                   /\ nops' = nops + 1
                   /\ UNCHANGED crashed
                \/ /\ r.oob
                   /\ Fault("np", p, k, 0)

\* command "kp p": kill(p), p active
Kill(p) ==
    /\ Running
    /\ active[p] # NotActive
    /\ \/ /\ \E m2 \in kill(mem, p) : mem' = m2
          /\ active' = [active EXCEPT ![p] = NotActive]
          /\ complete' = [complete EXCEPT ![p] = FALSE]
          /\ fresh' = NoFresh
          /\ op' = Call("kp", p, active[p], IF fresh.proc = p THEN 1 ELSE 0, 0)
          /\ nops' = nops + 1
          /\ UNCHANGED <<free_page_count, crashed, allComplete>>
       \/ /\ kill_oob(mem, p)
          /\ Fault("kp", p, 0, 0)

\* command "sb p va v": store_value(p, va, v), va in a page p asked for
Store(p, va, v) ==
    /\ Running
    /\ Mapped(p, va)
    /\ \E address \in get_physical_address(mem, p, va) :
          \/ /\ mem' = IF InMem(address) THEN store_at(mem, address, v) ELSE mem
             /\ fresh' = IF fresh.proc = p THEN fresh ELSE NoFresh
             /\ op' = Call("sb", p, va, v, address)
             /\ nops' = nops + 1
             /\ UNCHANGED <<free_page_count, crashed, active, complete, allComplete>>
          \/ /\ ~InMem(address) \/ ~InMem(page_table_entry_address(mem, p, va))
             /\ Fault("sb", p, va, v)

\* read_value(p, va) called by a command
ReadValue(p, va) ==
    \E address \in get_physical_address(mem, p, va) :
        \/ /\ \E value \in (IF InMem(address) THEN {read_at(mem, address)} ELSE Garbage) :
                  op' = Call("lb", p, va, address, value)
           /\ nops' = nops + 1
           /\ UNCHANGED <<mem, free_page_count, crashed, active, complete,
                          allComplete, fresh>>
        \/ /\ ~InMem(address) \/ ~InMem(page_table_entry_address(mem, p, va))
           /\ Fault("lb", p, va, 0)

\* command "lb p va": read_value(p, va), va in a page p asked for
Load(p, va) ==
    /\ Running
    /\ Mapped(p, va)
    /\ ReadValue(p, va)

\* command "lb p va" at any address, mapped or not, of an active process,
\* among the first MaxLoadAt commands
LoadAny(p, va) ==
    /\ Running
    /\ nops < MaxLoadAt
    /\ active[p] # NotActive
    /\ ReadValue(p, va)

\* ------------------------------------------------------------ specifications
NewProcessStep == \E p \in Procs, k \in PageCounts : NewProcess(p, k)
KillStep       == \E p \in Procs : Kill(p)
StoreStep      == \E p \in Procs, va \in VAddrs, v \in Values : Store(p, va, v)
LoadStep       == \E p \in Procs, va \in VAddrs : Load(p, va)

\* any command line of np, kp, sb and lb commands
Next == NewProcessStep \/ KillStep \/ StoreStep \/ LoadStep
Spec == Init /\ [][Next]_vars

\* command lines whose loads, early on, may be at any of ProbeVAddrs (mapped
\* or not, with low and high offsets), and whose stores write 0 or 99
ScenarioValues    == {0, 99}
ProbeVAddrs       == { get_address(vp, off) : vp \in {0, 1, PAGE_COUNT - 2},
                                              off \in {0, 1, PAGE_SIZE - 1} }
LoadAnyStep       == \E p \in Procs, va \in ProbeVAddrs : LoadAny(p, va)
StoreScenarioStep == \E p \in Procs, va \in VAddrs, v \in ScenarioValues : Store(p, va, v)
NextAny == NewProcessStep \/ KillStep \/ StoreScenarioStep \/ LoadAnyStep
SpecAny == Init /\ [][NextAny]_vars

\* command lines of np and kp commands only
NextProc == NewProcessStep \/ KillStep
SpecProc == Init /\ [][NextProc]_vars

\* the allocator alone: find_page and deallocate_page called directly, a page
\* being freed only while it is allocated
FindPage ==
    /\ ~crashed
    /\ nops < MaxCalls
    /\ LET r == find_page([mem |-> mem, fpc |-> free_page_count])
       IN  /\ mem' = r.mem
           /\ free_page_count' = r.fpc
           /\ op' = Call("find_page", 0, 0, 0, r.ret)
    /\ nops' = nops + 1
    /\ UNCHANGED <<crashed, active, complete, allComplete, fresh>>

DeallocatePage(n) ==
    /\ ~crashed
    /\ nops < MaxCalls
    /\ Rd(mem, n) = 1
    /\ mem' = deallocate_page(mem, n)
    /\ op' = Call("deallocate_page", 0, n, 0, 0)
    /\ nops' = nops + 1
    /\ UNCHANGED <<free_page_count, crashed, active, complete, allComplete, fresh>>

DeallocatePageStep == \E n \in 1..MaxFreed : DeallocatePage(n)

NextAlloc == FindPage \/ DeallocatePageStep
SpecAlloc == Init /\ [][NextAlloc]_vars

\* ----------------------------------------------------------------- bitmap
Pages     == 0..(PAGE_COUNT - 1)
UsedPages(m) == { i \in Pages : Rd(m, i) = 1 }
FreePages(m) == { i \in 1..(PAGE_COUNT - 1) : Rd(m, i) = 0 }

\* ------------------------------------------------------------------ claims

\* C1: allocation determinism.  A find_page call that succeeds returns an
\* index in 1..PAGE_COUNT-1 whose bitmap byte was 0 before the call, every
\* lower index from 1 on being non-zero before the call; so it never returns
\* 0 nor a page that was already allocated.
C1_LowestFree ==
    [][ (op'.name = "find_page" /\ op'.ret # NO_PAGE) =>
            /\ op'.ret \in 1..(PAGE_COUNT - 1)
            /\ op'.ret \in FreePages(mem)
            /\ \A j \in FreePages(mem) : op'.ret <= j
            /\ Rd(mem', op'.ret) = 1 ]_vars

\* a find_page that filled a hole below pages still allocated
C1_Witness ==
    /\ op.name = "find_page"
    /\ op.ret = 2
    /\ Rd(mem, 1) = 1
    /\ Rd(mem, 3) = 1
    /\ Rd(mem, 4) = 0

\* ------------------------------------------------------------ C2 .. C10
ActiveProcs == { p \in Procs : active[p] # NotActive }

RECURSIVE PagesOwned(_)
\* sum over the processes of S of (page_count + 1)
PagesOwned(S) ==
    IF S = {} THEN 0
    ELSE LET p == CHOOSE x \in S : TRUE
         IN  (active[p] + 1) + PagesOwned(S \ {p})

\* C2: conservation.  While every new_process that passed its pre-check got
\* all the pages it asked for (and every kill was of an active process), the
\* number of bitmap bytes equal to 1 is 1 + the sum of (page_count + 1) over
\* the active processes.
C2_Conservation ==
    allComplete => Cardinality(UsedPages(mem)) = 1 + PagesOwned(ActiveProcs)

\* two processes live, one of them with data pages, right after a kill
C2_Witness ==
    /\ allComplete
    /\ op.name = "kp"
    /\ \E p \in ActiveProcs : active[p] >= 1
    /\ Cardinality(UsedPages(mem)) >= 3

\* the values read_value(p, va) may return in memory m
load_values(m, p, va) ==
    { IF InMem(address) THEN read_at(m, address) ELSE -1 :
          address \in get_physical_address(m, p, va) }

\* C3: isolation.  While no creation has run out of pages midway, a store by
\* process A at va leaves what a load at va returns in every other active
\* process B that has va mapped too.
C3_Isolation ==
    [][ (allComplete /\ op'.name = "sb" /\ op'.ret # -1) =>
            \A B \in Procs \ {op'.proc} :
                (Mapped(op'.proc, op'.arg) /\ Mapped(B, op'.arg)) =>
                    load_values(mem', B, op'.arg) = load_values(mem, B, op'.arg) ]_vars

\* C4: teardown restores the counter.  kill(p) right after a complete
\* new_process(p, k), with no other np/kp in between, leaves free_page_count
\* at the value it had before that new_process.
C4_CounterRestored ==
    [][ (op'.name = "kp" /\ op'.ret # -1 /\ fresh.proc = op'.proc) =>
            free_page_count' = fresh.fpc ]_vars

\* C5: teardown frees the bitmap.  kill(p) after a complete
\* new_process(p, k), with only p's own loads and stores and other
\* processes' loads in between, leaves 0 in the bitmap byte of the page
\* table's page and of every data page that new_process allocated.
C5_BitmapReclaimed ==
    [][ (op'.name = "kp" /\ op'.ret # -1 /\ fresh.proc = op'.proc) =>
            \A n \in fresh.pages : Rd(mem', n) = 0 ]_vars

\* a kill of a process with data pages, straight after its complete creation
C5_Witness ==
    /\ op.name = "kp"
    /\ op.val = 1
    /\ op.arg >= 1
    /\ op.ret = 0

\* C6: the counter is derived from the bitmap.  free_page_count is
\* PAGE_COUNT minus the number of bitmap bytes equal to 1.
C6_CounterConsistent ==
    free_page_count = PAGE_COUNT - Cardinality(UsedPages(mem))

\* C7: a refused creation changes nothing.  new_process(p, k) called with
\* free_page_count < k leaves all of mem (bitmap, process table, page
\* tables) and free_page_count as they were, and p stays inactive.
C7_RefusedChangesNothing ==
    [][ (op'.name = "np" /\ free_page_count < op'.arg) =>
            /\ mem' = mem
            /\ free_page_count' = free_page_count
            /\ active' = active ]_vars

\* new_process(1, 64) as the first command, 63 pages being free
C7_Witness ==
    /\ op = Call("np", 1, PAGE_COUNT, 0, 0)
    /\ nops = 1
    /\ free_page_count = PAGE_COUNT - 1
    /\ mem = initialize_mem

\* C8: round trip.  In a process p whose complete creation is the last np/kp
\* (and in which only p has stored since), store_value(p, va, v) at a va of
\* a page p asked for, followed at once by read_value(p, va), reads v.
C8_RoundTrip ==
    [][ (/\ op.name = "sb" /\ op.ret # -1
         /\ op'.name = "lb"
         /\ op'.proc = op.proc
         /\ op'.arg = op.arg
         /\ fresh.proc = op.proc) =>
            op'.ret = op.val ]_vars

\* a load that returned the non-zero byte just stored
C8_Witness ==
    /\ op.name = "lb"
    /\ op.ret = MaxValue
    /\ fresh.proc = op.proc
    /\ nops >= 3

\* page numbers (inside the store) that the active process p refers to
PageTableOf(p) == get_page_table(mem, p)
DataPagesOf(p) ==
    IF PageTableOf(p) \in Pages
    THEN { Rd(mem, get_address(PageTableOf(p), v)) : v \in 0..(active[p] - 1) } \cap Pages
    ELSE {}
\* virtual pages of p whose entry names a page of the store
MappedVPagesOf(p) ==
    IF PageTableOf(p) \in Pages
    THEN { v \in 0..(active[p] - 1) : Rd(mem, get_address(PageTableOf(p), v)) \in Pages }
    ELSE {}
RefsOf(p) == ({PageTableOf(p)} \cap Pages) \cup DataPagesOf(p)

\* C9: one purpose per page.  While no creation has run out of pages
\* midway, for the active processes: every page they
\* refer to (page table, or data page of a virtual page they asked for) is
\* allocated in the bitmap and is not page 0; no page is the page table of
\* one process and a data page of any; no page belongs to two processes; no
\* page is mapped at two virtual pages of one process.
C9_SinglePurpose ==
    allComplete =>
        /\ \A p \in ActiveProcs : \A n \in RefsOf(p) : n # 0 /\ Rd(mem, n) = 1
        /\ \A p, q \in ActiveProcs : PageTableOf(p) \notin DataPagesOf(q)
        /\ \A p, q \in ActiveProcs : p # q => RefsOf(p) \cap RefsOf(q) = {}
        /\ \A p \in ActiveProcs :
              Cardinality(DataPagesOf(p)) = Cardinality(MappedVPagesOf(p))

\* C10: process-table entries name allocated pages.  Every non-zero
\* process-table byte that names a page of the store names one whose bitmap
\* byte is 1.
C10_TableEntriesAllocated ==
    \A p \in Procs :
        get_page_table(mem, p) \in 1..(PAGE_COUNT - 1) =>
            Rd(mem, get_page_table(mem, p)) = 1

\* ------------------------------------------------------------ C11 .. C20

\* C11: allocator exhaustion.  find_page called while every bitmap byte at
\* 1..PAGE_COUNT-1 is 1 returns NO_PAGE (0xff) and leaves mem and
\* free_page_count as they were.
C11_Exhausted ==
    [][ (op'.name = "find_page" /\ \A i \in 1..(PAGE_COUNT - 1) : Rd(mem, i) = 1) =>
            /\ op'.ret = NO_PAGE
            /\ mem' = mem
            /\ free_page_count' = free_page_count ]_vars

\* a find_page that failed, all 63 pages being allocated
C11_Witness ==
    /\ op.name = "find_page"
    /\ op.ret = NO_PAGE
    /\ Cardinality(UsedPages(mem)) = PAGE_COUNT
    /\ free_page_count = 0

\* the first two commands were "np 2 1" and "sb 2 0 99"
C12_AfterStore ==
    /\ nops = 2
    /\ op.name = "sb" /\ op.proc = 2 /\ op.arg = 0 /\ op.val = 99
    /\ active[2] = 1

\* C12 as stated: the unmapped-access scenario.  After "np 2 1" and
\* "sb 2 0 99", "lb 2 0" returns 99 and "lb 2 256" resolves to physical
\* address 1 (page 0, offset 1) and returns the byte stored there.
C12_Original ==
    [][ (C12_AfterStore /\ op'.name = "lb" /\ op'.proc = 2) =>
            /\ op'.arg = 0 => op'.ret = 99
            /\ op'.arg = PAGE_SIZE => (op'.val = 1 /\ op'.ret = Rd(mem, 1)) ]_vars

\* C12 amended: after "np 2 1" and "sb 2 0 99", "lb 2 0" returns 99 and
\* "lb 2 256" resolves through the zero page-table entry of virtual page 1 to
\* physical address 0 (page 0, offset 0) and returns the byte stored there,
\* the bitmap byte of page 0.
C12_Scenario ==
    [][ (C12_AfterStore /\ op'.name = "lb" /\ op'.proc = 2) =>
            /\ op'.arg = 0 => op'.ret = 99
            /\ op'.arg = PAGE_SIZE =>
                   /\ op'.val = get_address(0, 0)
                   /\ op'.ret = Rd(mem, get_address(0, 0))
                   /\ op'.ret = 1 ]_vars

\* "np 2 1", "sb 2 0 99", "lb 2 256": the load read address 0
C12_Witness ==
    /\ nops = 3
    /\ op.name = "lb" /\ op.proc = 2 /\ op.arg = PAGE_SIZE /\ op.val = 0
    /\ Rd(mem, get_address(2, 0)) = 99
    /\ active[2] = 1

\* the number of pages of the set F below page x
RankIn(F, x) == Cardinality({ y \in F : y < x })

\* C13: creation layout.  When new_process(p, k) passes its pre-check with
\* at least k+1 pages free, the process-table entry of p becomes the lowest
\* free page f0, the page-table entry of virtual page v (0 <= v < k) becomes
\* the free page with v+1 free pages below it (f1, f2, ... ascending), exactly
\* those k+1 bitmap bytes go from 0 to 1 and no other bitmap byte changes,
\* and free_page_count decreases by exactly k+1.
C13_Layout ==
    [][ (/\ op'.name = "np" /\ op'.ret = 1
         /\ Cardinality(FreePages(mem)) >= op'.arg + 1) =>
            \A F \in {FreePages(mem)}, pt \in {get_page_table(mem', op'.proc)},
               k \in {op'.arg} :
            \A taken \in {{ x \in F : RankIn(F, x) <= k }} :
                /\ pt \in F /\ RankIn(F, pt) = 0
                /\ \A v \in 0..(k - 1) :
                       LET e == Rd(mem', get_address(pt, v))
                       IN  e \in F /\ RankIn(F, e) = v + 1
                /\ \A i \in Pages :
                       IF i \in taken THEN Rd(mem, i) = 0 /\ Rd(mem', i) = 1
                       ELSE Rd(mem', i) = Rd(mem, i)
                /\ free_page_count' = free_page_count - (k + 1) ]_vars

\* process 1 created with one page while page 2 is in use: page table in
\* page 1, virtual page 0 in page 3
C13_Witness ==
    /\ op.name = "np" /\ op.ret = 1 /\ op.proc = 1 /\ op.arg = 1
    /\ get_page_table(mem, 1) = 1
    /\ Rd(mem, get_address(1, 0)) = 3
    /\ get_page_table(mem, 2) = 2 /\ active[2] # NotActive

\* C14: a fresh page table has exactly the requested mappings.  Right after
\* a new_process(p, k) in which every find_page succeeded, the page table of
\* p holds a non-zero page number at every offset v < k and 0 at every offset
\* k <= v < PAGE_COUNT.  (Stated for command lines on which no find_page has
\* failed so far.)
C14_FreshTable ==
    (allComplete /\ op.name = "np" /\ op.ret = 1 /\ fresh.proc = op.proc) =>
        \A pt \in {get_page_table(mem, op.proc)} :
        \A v \in 0..(PAGE_COUNT - 1) :
            IF v < op.arg
            THEN Rd(mem, get_address(pt, v)) # 0
            ELSE Rd(mem, get_address(pt, v)) = 0

\* the addresses whose byte differs between memories m and n
ChangedBytes(m, n) == { a \in DOMAIN m \cup DOMAIN n : Rd(m, a) # Rd(n, a) }

\* C15: kill touches only the victim.  kill(p) sets to 0 only the bitmap
\* bytes of p's page-table page and of the data pages named by p's page-table
\* entries 0..PAGE_COUNT-1, and zeroes only those entries; it changes no
\* bitmap byte, process-table byte, page-table entry or data byte of another
\* active process.  (Stated for command lines on which no find_page has
\* failed so far.)
C15_OnlyVictim ==
    [][ (allComplete /\ op'.name = "kp") =>
            \A pt \in {get_page_table(mem, op'.proc)},
               changed \in {ChangedBytes(mem, mem')} :
            \A named \in {{ Rd(mem, get_address(pt, v)) : v \in 0..(PAGE_COUNT - 1) } \ {0}} :
                /\ \A a \in changed :
                       /\ Rd(mem', a) = 0
                       /\ \/ a = pt
                          \/ a \in named
                          \/ \E v \in 0..(PAGE_COUNT - 1) : a = get_address(pt, v)
                /\ \A q \in ActiveProcs \ {op'.proc} :
                   \A a \in changed :
                       /\ a \notin RefsOf(q)
                       /\ a # PAGE_COUNT + q
                       /\ Shr(a, PAGE_SHIFT) # PageTableOf(q)
                       /\ Shr(a, PAGE_SHIFT) \notin DataPagesOf(q) ]_vars

\* C16: off-by-one partial creation.  new_process(p, k) called with k >= 1,
\* exactly k pages free and free_page_count = k passes the pre-check, takes
\* the page table and k-1 data pages, fails to find the last data page and
\* ends without rollback: all bitmap bytes 1..PAGE_COUNT-1 are 1,
\* free_page_count is 0, and p's page table holds fewer than k entries naming
\* an allocated page in 1..PAGE_COUNT-1.
C16_PartialCreation ==
    [][ (/\ op'.name = "np" /\ op'.arg >= 1
         /\ Cardinality(FreePages(mem)) = op'.arg
         /\ free_page_count = op'.arg) =>
            \A F \in {FreePages(mem)}, pt \in {get_page_table(mem', op'.proc)},
               k \in {op'.arg} :
                /\ op'.ret = 1
                /\ pt \in F
                /\ \A v \in 0..(k - 2) : Rd(mem', get_address(pt, v)) \in F \ {pt}
                /\ Cardinality({ Rd(mem', get_address(pt, v)) : v \in 0..(k - 2) }) = k - 1
                /\ Rd(mem', get_address(pt, k - 1)) = NO_PAGE
                /\ \A i \in 1..(PAGE_COUNT - 1) : Rd(mem', i) = 1
                /\ free_page_count' = 0
                /\ Cardinality({ v \in 0..(PAGE_COUNT - 1) :
                                   /\ Rd(mem', get_address(pt, v)) \in 1..(PAGE_COUNT - 1)
                                   /\ Rd(mem', Rd(mem', get_address(pt, v))) = 1 }) < k ]_vars

\* a process created with 62 pages when 62 were free: its last entry is 0xff
C16_Witness ==
    /\ op.name = "np" /\ op.ret = 1 /\ op.arg = PAGE_COUNT - 2
    /\ ~complete[op.proc]
    /\ Rd(mem, get_address(get_page_table(mem, op.proc), op.arg - 1)) = NO_PAGE
    /\ free_page_count = 0
    /\ Cardinality(UsedPages(mem)) = PAGE_COUNT

\* C17: page 0 stays reserved.  Bitmap byte 0 is 1, and right after a
\* new_process(p, k) neither the process-table byte of p nor a page-table
\* entry it wrote (offsets 0..k-1) is 0.  (Stated for command lines on which
\* no find_page has failed so far.)
C17_PageZeroReserved ==
    allComplete =>
        /\ Rd(mem, 0) = 1
        /\ (op.name = "np" /\ op.ret = 1) =>
               \A pt \in {get_page_table(mem, op.proc)} :
                   /\ pt # 0
                   /\ \A v \in 0..(op.arg - 1) : Rd(mem, get_address(pt, v)) # 0

\* C18: the translation formula.  The address a load or store of process p
\* at va resolves to is E * 2^PAGE_SHIFT + va mod PAGE_SIZE, E being the byte
\* at offset va div 2^PAGE_SHIFT of the page named by p's process-table byte
\* (for an entry inside mem[]); the translation of a load changes neither mem
\* nor free_page_count, and that of a store changes at most the byte at the
\* resolved address.
C18_Translation ==
    [][ (op'.name \in {"lb", "sb"} /\ op'.ret # -1) =>
            \A va \in {op'.arg}, address \in {IF op'.name = "lb" THEN op'.val ELSE op'.ret} :
            \A at \in {(Rd(mem, PAGE_COUNT + op'.proc) * PAGE_SIZE) + (va \div (2^PAGE_SHIFT))} :
                /\ InMem(at) =>
                       address = (Rd(mem, at) * (2^PAGE_SHIFT)) + (va % PAGE_SIZE)
                /\ free_page_count' = free_page_count
                /\ ChangedBytes(mem, mem') \subseteq
                       (IF op'.name = "sb" THEN {address} ELSE {}) ]_vars

\* a load at the last byte of a mapped page resolved inside the data page
C18_Witness ==
    /\ op.name = "lb" /\ op.ret # -1
    /\ op.arg = PAGE_SIZE - 1
    /\ active[op.proc] >= 1
    /\ op.val = get_address(Rd(mem, get_address(get_page_table(mem, op.proc), 0)), PAGE_SIZE - 1)
    /\ op.val >= 2 * PAGE_SIZE

\* C19: translated addresses stay inside mem[].  Every address
\* get_physical_address computes for a load or store in a virtual page below
\* the page count the process asked for is in 0..MEM_SIZE-1, also after a
\* new_process that ran out of pages midway; and every address new_process
\* writes a page-table entry to is in that range.
C19_AddressesInRange ==
    [][ /\ (op'.name \in {"lb", "sb"} /\ Mapped(op'.proc, op'.arg)) =>
               \A address \in get_physical_address(mem, op'.proc, op'.arg) :
                   InMem(address)
        /\ (op'.name = "np" /\ ~new_process_refused(free_page_count, op'.arg)) =>
               ~new_process_body(mem, free_page_count, op'.proc, op'.arg).oob ]_vars

\* C20: counter bounds.  Over command lines of new_process (page_count >= 0)
\* and kill of active processes, 0 <= free_page_count <= PAGE_COUNT - 1.
\* (Stated for command lines on which no find_page has failed so far.)
C20_CounterBounds ==
    allComplete => (0 <= free_page_count /\ free_page_count <= PAGE_COUNT - 1)

====
